---------------------------- MODULE Spec2Model ----------------------------
(***************************************************************************)
(* Actor lifecycle and sensor-callback relay of CarlaEnv/wrappers.py.      *)
(*                                                                         *)
(* The Python heap is the triple <<actor_list, objs, carla>>:              *)
(*   actor_list  World.actor_list, a list of wrapper handles               *)
(*   objs        the wrapper objects (CarlaActorBase and its subclasses),  *)
(*               indexed by handle; objs[h] holds the attributes of h      *)
(*   carla       the simulator's actors, indexed by actor id; the wrapper  *)
(*               with handle h wraps the simulator actor with id h         *)
(* collected is the set of wrappers the garbage collector has reclaimed    *)
(* (the wrappers whose weakref now yields None).                            *)
(* delivered counts the sensor callbacks delivered, and arrived[h] lists the *)
(* collision events that reached collision sensor h while its wrapper was  *)
(* alive.                                                                  *)
(* call records the last handler that ran: its name, its arguments, the    *)
(* error it raised ("" for none) and, in order, the calls it made to the   *)
(* simulator and to the user-supplied functions.                            *)
(*                                                                         *)
(* Every handler runs as one step.  Calls into the simulator               *)
(* (spawn_actor, listen, actor.destroy, apply_control) return normally.    *)
(***************************************************************************)
EXTENDS Integers, Sequences, FiniteSets, TLC

VARIABLES actor_list, objs, carla, collected, call, delivered, arrived

vars == <<actor_list, objs, carla, collected, call, delivered, arrived>>

\* Bounds of the model.
MaxHandles == 3
MaxEvents == 2
MaxFrame == 2
MaxSide == 2

\* wrappers.py:105, the length the collision history is truncated to.
HISTORY_MAX == 4000

ALREADY_DESTROYED == "Actor already destroyed."

Handles == 1..Len(objs)
Live == Handles \ collected
\* The values the model gives a vehicle's control struct: 0 is the default
\* carla.VehicleControl().
Controls == {0, 1}
Frames == 1..MaxFrame

\* The heap a handler starts from: nothing raised, no call made yet.
Heap == [actor_list |-> actor_list, objs |-> objs, carla |-> carla,
         collected |-> collected, raised |-> "", ret |-> << >>, trace |-> << >>]

\* A call the handler makes to a collaborator, appended to the trace.
Called(H, c) == [H EXCEPT !.trace = Append(@, c)]

-----------------------------------------------------------------------------
(* list.remove(x): drdelivered the first entry equal to x. *)
RECURSIVE ListRemove(_, _)
ListRemove(list, x) ==
    IF list = << >> THEN << >>
    ELSE IF Head(list) = x THEN Tail(list)
    ELSE <<Head(list)>> \o ListRemove(Tail(list), x)

(* world.spawn_actor(bp, ...): the simulator creates an actor and gives it
   the next actor id. *)
spawn_actor(H, bp) ==
    [H EXCEPT !.carla = Append(@, [type_id |-> bp, listen |-> FALSE,
                                   destroy_calls |-> 0])]

NewActor(H) == Len(H.carla)

(* actor.listen(callback) *)
listen(H, actor) == [H EXCEPT !.carla[actor].listen = TRUE]

(* The object under construction, with the attributes its subclass sets
   before calling CarlaActorBase.__init__. *)
Allocate(H, self, attrs) ==
    [H EXCEPT !.objs = [i \in 1..self |-> IF i = self THEN attrs ELSE @[i]]]

(* CarlaActorBase.__init__ *)
CarlaActorBase_init(H, self) ==
    [H EXCEPT !.actor_list = Append(@, self),
              !.objs[self] = @ @@ [destroyed |-> FALSE]]

(* CarlaActorBase.destroy without its test of the flag. *)
CarlaActorBase_destroy_unchecked(H, self) ==
    LET H1 == Called(Called(H, <<"destroy", self>>), <<"actor.destroy", self>>) IN
    [H1 EXCEPT !.carla[self].destroy_calls = @ + 1,
               !.actor_list = ListRemove(@, self),
               !.objs[self].destroyed = TRUE]

(* CarlaActorBase.destroy releasing the simulator actor before it tests the
   flag. *)
CarlaActorBase_destroy_release_first(H, self) ==
    LET H0 == Called(Called(H, <<"destroy", self>>), <<"actor.destroy", self>>)
        H1 == [H0 EXCEPT !.carla[self].destroy_calls = @ + 1]
    IN  IF H1.objs[self].destroyed
        THEN [H1 EXCEPT !.raised = ALREADY_DESTROYED]
        ELSE [H1 EXCEPT !.actor_list = ListRemove(@, self),
                        !.objs[self].destroyed = TRUE]

(* CarlaActorBase.destroy *)
CarlaActorBase_destroy(H, self) ==
    LET H0 == Called(H, <<"destroy", self>>) IN
    IF H0.objs[self].destroyed
    THEN [H0 EXCEPT !.raised = ALREADY_DESTROYED]
    ELSE LET H1 == Called(H0, <<"actor.destroy", self>>) IN
         [H1 EXCEPT !.carla[self].destroy_calls = @ + 1,
                    !.actor_list = ListRemove(@, self),
                    !.objs[self].destroyed = TRUE]

(* CarlaActorBase.tick *)
CarlaActorBase_tick(H, self) == H

(* CollisionSensor.__init__ *)
CollisionSensor_init(H, on_collision_fn) ==
    LET H1 == spawn_actor(H, "sensor.other.collision")
        self == NewActor(H1)
        H2 == Allocate(H1, self, [class |-> "CollisionSensor",
                                  fn |-> on_collision_fn, history |-> << >>])
    IN  CarlaActorBase_init(listen(H2, self), self)

(* LaneInvasionSensor.__init__ *)
LaneInvasionSensor_init(H, on_invasion_fn) ==
    LET H1 == spawn_actor(H, "sensor.other.lane_detector")
        self == NewActor(H1)
        H2 == Allocate(H1, self, [class |-> "LaneInvasionSensor",
                                  fn |-> on_invasion_fn])
    IN  CarlaActorBase_init(listen(H2, self), self)

(* Camera.__init__ *)
Camera_init(H, on_recv_image) ==
    LET H1 == spawn_actor(H, "sensor.camera.rgb")
        self == NewActor(H1)
        H2 == Allocate(H1, self, [class |-> "Camera", fn |-> on_recv_image])
    IN  CarlaActorBase_init(listen(H2, self), self)

(* Vehicle.__init__ calling CarlaActorBase.__init__ last, after it built
   the sensors. *)
Vehicle_init_register_last(H, on_collision_fn, on_invasion_fn) ==
    LET H1 == spawn_actor(H, "vehicle.lincoln.mkz2017")
        self == NewActor(H1)
        H3 == Allocate(H1, self, [class |-> "Vehicle", control |-> 0,
                                  collision_sensor |-> 0, lane_sensor |-> 0])
        H4 == IF on_collision_fn
              THEN LET S == CollisionSensor_init(H3, on_collision_fn)
                   IN  [S EXCEPT !.objs[self].collision_sensor = NewActor(S)]
              ELSE H3
        H5 == IF on_invasion_fn
              THEN LET S == LaneInvasionSensor_init(H4, on_invasion_fn)
                   IN  [S EXCEPT !.objs[self].lane_sensor = NewActor(S)]
              ELSE H4
    IN  CarlaActorBase_init(H5, self)

(* Vehicle.__init__: on_collision_fn and on_invasion_fn are TRUE when the
   argument is callable.  collision_sensor and lane_sensor are 0 when the
   attribute is not set. *)
Vehicle_init(H, on_collision_fn, on_invasion_fn) ==
    LET H1 == spawn_actor(H, "vehicle.lincoln.mkz2017")
        self == NewActor(H1)
        H2 == CarlaActorBase_init(
                 Allocate(H1, self, [class |-> "Vehicle"]), self)
        H3 == [H2 EXCEPT !.objs[self] =
                 @ @@ [control |-> 0, collision_sensor |-> 0, lane_sensor |-> 0]]
        H4 == IF on_collision_fn
              THEN LET S == CollisionSensor_init(H3, on_collision_fn)
                   IN  [S EXCEPT !.objs[self].collision_sensor = NewActor(S)]
              ELSE H3
        H5 == IF on_invasion_fn
              THEN LET S == LaneInvasionSensor_init(H4, on_invasion_fn)
                   IN  [S EXCEPT !.objs[self].lane_sensor = NewActor(S)]
              ELSE H4
    IN  H5

(* Vehicle.tick *)
Vehicle_tick(H, self) ==
    Called(H, <<"apply_control", self, H.objs[self].control>>)

(* actor.tick() with no override in Vehicle. *)
tick_base_only(H, self) == CarlaActorBase_tick(Called(H, <<"tick", self>>), self)

(* actor.tick(), dispatched on the class of the handle. *)
tick(H, self) ==
    LET H0 == Called(H, <<"tick", self>>) IN
    IF H0.objs[self].class = "Vehicle" THEN Vehicle_tick(H0, self)
    ELSE CarlaActorBase_tick(H0, self)

(* `for actor in list(self.actor_list): actor.tick()' from entry i of the
   snapshot on. *)
RECURSIVE TickEach(_, _, _)
TickEach(H, snapshot, i) ==
    IF i > Len(snapshot) THEN H
    ELSE TickEach(tick(H, snapshot[i]), snapshot, i + 1)

(* World.tick *)
World_tick(H) == TickEach(H, H.actor_list, 1)

(* `for actor in list(self.actor_list): actor.destroy()' from entry i of
   the snapshot on; an exception ends the loop. *)
RECURSIVE DestroyEach(_, _, _)
DestroyEach(H, snapshot, i) ==
    IF i > Len(snapshot) \/ H.raised # "" THEN H
    ELSE DestroyEach(CarlaActorBase_destroy(H, snapshot[i]), snapshot, i + 1)

(* World.destroy looping over the list itself, not over a copy of it. *)
RECURSIVE DestroyLive(_, _)
DestroyLive(H, i) ==
    IF i > Len(H.actor_list) \/ H.raised # "" THEN H
    ELSE DestroyLive(CarlaActorBase_destroy(H, H.actor_list[i]), i + 1)

World_destroy_no_snapshot(H) == DestroyLive(H, 1)

(* World.destroy *)
World_destroy(H) == DestroyEach(H, H.actor_list, 1)

(* A reference that keeps yielding the wrapper. *)
IsNone_never(H, weak_self) == FALSE

(* weak_self(): the wrapper, or None once it has been collected. *)
IsNone(H, weak_self) == weak_self \in H.collected

(* math.sqrt on the sums of squares the events of the model produce, all of
   them perfect squares, so that the float result is exact. *)
sqrt(n) == CHOOSE r \in 0..n : r * r = n

(* A call of a user-supplied function with argument arg.  seen is what the
   function finds in the wrapper when it runs: for a collision sensor the
   length of the history and its last entry. *)
UserCall(H, self, name, arg) ==
    LET o == H.objs[self]
        seen == IF o.class = "CollisionSensor"
                THEN <<Len(o.history),
                       IF o.history = << >> THEN << >>
                       ELSE o.history[Len(o.history)]>>
                ELSE << >>
    IN  Called(H, <<name, arg, seen>>)

(* CollisionSensor.on_collision evicting the newest entry (pop()) instead
   of the oldest. *)
on_collision_evict_newest(H, weak_self, event) ==
    IF weak_self \in H.collected THEN H
    ELSE LET self == weak_self
             impulse == event.normal_impulse
             intensity == sqrt(impulse[1] * impulse[1] + impulse[2] * impulse[2]
                               + impulse[3] * impulse[3])
             H1 == [H EXCEPT !.objs[self].history =
                                Append(@, <<event.frame_number, intensity>>)]
             H2 == IF Len(H1.objs[self].history) > HISTORY_MAX
                   THEN [H1 EXCEPT !.objs[self].history = SubSeq(@, 1, Len(@) - 1)]
                   ELSE H1
         IN  IF H2.objs[self].fn
             THEN UserCall(H2, self, "on_collision_fn", event)
             ELSE H2

(* CollisionSensor.on_collision calling on_collision_fn before it stores
   the event. *)
on_collision_fn_first(H, weak_self, event) ==
    IF weak_self \in H.collected THEN H
    ELSE LET self == weak_self
             impulse == event.normal_impulse
             intensity == sqrt(impulse[1] * impulse[1] + impulse[2] * impulse[2]
                               + impulse[3] * impulse[3])
             H0 == IF H.objs[self].fn
                   THEN UserCall(H, self, "on_collision_fn", event)
                   ELSE H
             H1 == [H0 EXCEPT !.objs[self].history =
                                 Append(@, <<event.frame_number, intensity>>)]
         IN  IF Len(H1.objs[self].history) > HISTORY_MAX
             THEN [H1 EXCEPT !.objs[self].history = Tail(@)]
             ELSE H1

(* CollisionSensor.on_collision *)
on_collision(H, weak_self, event) ==
    IF IsNone(H, weak_self) THEN H
    ELSE LET self == weak_self
             impulse == event.normal_impulse
             intensity == sqrt(impulse[1] * impulse[1] + impulse[2] * impulse[2]
                               + impulse[3] * impulse[3])
             H1 == [H EXCEPT !.objs[self].history =
                                Append(@, <<event.frame_number, intensity>>)]
             H2 == IF Len(H1.objs[self].history) > HISTORY_MAX
                   THEN [H1 EXCEPT !.objs[self].history = Tail(@)]
                   ELSE H1
         IN  IF H2.objs[self].fn
             THEN UserCall(H2, self, "on_collision_fn", event)
             ELSE H2

(* The loop of get_collision_history with `=' for `+=': the last entry of
   a frame replaces the sum. *)
RECURSIVE SumByFrame_overwrite(_, _, _, _)
SumByFrame_overwrite(history, lo, hi, acc) ==
    IF lo > hi THEN acc
    ELSE IF lo = hi
    THEN LET frame == history[lo][1]
             intensity == history[lo][2]
         IN  IF frame \in DOMAIN acc
             THEN [acc EXCEPT ![frame] = intensity]
             ELSE acc @@ (frame :> intensity)
    ELSE LET mid == (lo + hi) \div 2
             left == SumByFrame_overwrite(history, lo, mid, acc)
         IN  IF DOMAIN left # {}
             THEN SumByFrame_overwrite(history, mid + 1, hi, left)
             ELSE left

(* The loop of get_collision_history over entries lo..hi of the history, in
   list order, from the mapping acc.  The range is halved, and the left half
   summed before the right half is entered, only to bound the depth of
   evaluation; the entries are still visited first to last. *)
RECURSIVE SumByFrame(_, _, _, _)
SumByFrame(history, lo, hi, acc) ==
    IF lo > hi THEN acc
    ELSE IF lo = hi
    THEN LET frame == history[lo][1]
             intensity == history[lo][2]
         IN  IF frame \in DOMAIN acc
             THEN [acc EXCEPT ![frame] = @ + intensity]
             ELSE acc @@ (frame :> 0 + intensity)
    ELSE LET mid == (lo + hi) \div 2
             left == SumByFrame(history, lo, mid, acc)
         IN  IF DOMAIN left # {}
             THEN SumByFrame(history, mid + 1, hi, left)
             ELSE left

(* CollisionSensor.get_collision_history *)
get_collision_history(H, self) ==
    [H EXCEPT !.ret = SumByFrame(H.objs[self].history, 1,
                                 Len(H.objs[self].history), << >>)]

(* LaneInvasionSensor.on_invasion *)
on_invasion(H, weak_self, event) ==
    IF IsNone(H, weak_self) THEN H
    ELSE LET self == weak_self
         IN  IF H.objs[self].fn
             THEN UserCall(H, self, "on_invasion_fn", event)
             ELSE H

(* image.convert(carla.ColorConverter.Raw): the raw converter leaves the
   buffer as it is. *)
convert_Raw(image) == image

(* np.reshape(array, (height, width, 4)) of the flat byte buffer, row-major. *)
reshape(array, height, width) ==
    [r \in 1..height |-> [c \in 1..width |-> [k \in 1..4 |->
        array[((r - 1) * width + (c - 1)) * 4 + k]]]]

(* array[:, :, :3] *)
first3(array) ==
    [r \in DOMAIN array |-> [c \in DOMAIN array[r] |-> SubSeq(array[r][c], 1, 3)]]

(* The channels left in the order of the raw buffer. *)
reversed_not(array) == array

(* array[:, :, ::-1] *)
reversed(array) ==
    [r \in DOMAIN array |-> [c \in DOMAIN array[r] |->
        [k \in 1..Len(array[r][c]) |-> array[r][c][Len(array[r][c]) + 1 - k]]]]

(* Camera.process_camera_input *)
process_camera_input(H, weak_self, image) ==
    IF IsNone(H, weak_self) THEN H
    ELSE LET self == weak_self
         IN  IF H.objs[self].fn
             THEN LET img == convert_Raw(image)
                      a1 == reshape(img.raw_data, img.height, img.width)
                      a2 == first3(a1)
                      a3 == reversed(a2)
                  IN  UserCall(H, self, "on_recv_image", a3)
             ELSE H

(* The garbage collector reclaims wrapper h: from then on its weakref
   yields None. *)
collect(H, h) == [H EXCEPT !.collected = @ \cup {h}]

(* The user writes the vehicle's control struct. *)
set_control(H, self, c) == [H EXCEPT !.objs[self].control = c]

-----------------------------------------------------------------------------
(* A handler has run: the heap is H, and call records what it did. *)
Ran(op, args, H) ==
    /\ arrived' = [h \in 1..Len(H.objs) |->
                      IF h > Len(arrived) THEN << >>
                      ELSE IF op = "on_collision" /\ h = args[1] /\ h \notin collected
                      THEN Append(arrived[h], args[2])
                      ELSE arrived[h]]
    /\ actor_list' = H.actor_list
    /\ objs' = H.objs
    /\ carla' = H.carla
    /\ collected' = H.collected
    /\ call' = [op |-> op, args |-> args, raised |-> H.raised, ret |-> H.ret,
                trace |-> H.trace]

\* The wrappers a new sensor or camera can be attached to.
Attachable == {v \in Live : ~objs[v].destroyed}

NewVehicle ==
    \E cf \in BOOLEAN, lf \in BOOLEAN :
        /\ Len(Vehicle_init(Heap, cf, lf).objs) <= MaxHandles
        /\ Ran("Vehicle", <<cf, lf>>, Vehicle_init(Heap, cf, lf))
        /\ UNCHANGED delivered

NewCollisionSensor ==
    \E v \in Attachable, f \in BOOLEAN :
        /\ Len(objs) < MaxHandles
        /\ Ran("CollisionSensor", <<f>>, CollisionSensor_init(Heap, f))
        /\ UNCHANGED delivered

NewLaneInvasionSensor ==
    \E v \in Attachable, f \in BOOLEAN :
        /\ Len(objs) < MaxHandles
        /\ Ran("LaneInvasionSensor", <<f>>, LaneInvasionSensor_init(Heap, f))
        /\ UNCHANGED delivered

NewCamera ==
    \E v \in Attachable, f \in BOOLEAN :
        /\ Len(objs) < MaxHandles
        /\ Ran("Camera", <<f>>, Camera_init(Heap, f))
        /\ UNCHANGED delivered

Destroy ==
    \E h \in Live :
        /\ Ran("destroy", <<h>>, CarlaActorBase_destroy(Heap, h))
        /\ UNCHANGED delivered

WorldDestroy ==
    /\ Ran("World.destroy", << >>, World_destroy(Heap))
    /\ UNCHANGED delivered

WorldTick ==
    /\ Ran("World.tick", << >>, World_tick(Heap))
    /\ UNCHANGED delivered

\* The collision events of the model: a frame number and a normal impulse.
Impulses == << <<0, 0, 0>>, <<3, 4, 0>>, <<1, 2, 2>> >>

CollisionEvents ==
    [frame_number : Frames, normal_impulse : {Impulses[i] : i \in 1..Len(Impulses)}]

InvasionEvents == [frame_number : Frames]

\* The image of the given sizes whose raw BGRA buffer holds, as byte i,
\* (seed + 50 * i) % 256.
Image(height, width, seed) ==
    [height |-> height, width |-> width,
     raw_data |-> [i \in 1..(height * width * 4) |-> (seed + 50 * i) % 256]]

Images == {Image(h, w, 7) : h \in 1..MaxSide, w \in 1..MaxSide}

\* The sensors of a class whose callback the simulator may still deliver:
\* listen() was called on their actor.
Listening(class) ==
    {h \in Handles : objs[h].class = class /\ carla[h].listen}

\* Wrapper h is strongly referenced: by World.actor_list, or by the
\* collision_sensor or lane_sensor attribute of a vehicle not yet collected.
Strong(h) ==
    \/ \E i \in 1..Len(actor_list) : actor_list[i] = h
    \/ \E v \in Live : /\ objs[v].class = "Vehicle"
                       /\ h \in {objs[v].collision_sensor, objs[v].lane_sensor}

SetControl ==
    \E v \in Live, c \in Controls :
        /\ objs[v].class = "Vehicle"
        /\ Ran("set_control", <<v, c>>, set_control(Heap, v, c))
        /\ UNCHANGED delivered

Collect ==
    \E h \in Live :
        /\ ~Strong(h)
        /\ Ran("collect", <<h>>, collect(Heap, h))
        /\ UNCHANGED delivered

OnCollision ==
    \E h \in Listening("CollisionSensor"), event \in CollisionEvents :
        /\ delivered < MaxEvents
        /\ delivered' = delivered + 1
        /\ Ran("on_collision", <<h, event>>, on_collision(Heap, h, event))

OnInvasion ==
    \E h \in Listening("LaneInvasionSensor"), event \in InvasionEvents :
        /\ delivered < MaxEvents
        /\ delivered' = delivered + 1
        /\ Ran("on_invasion", <<h, event>>, on_invasion(Heap, h, event))

ProcessCameraInput ==
    \E h \in Listening("Camera"), image \in Images :
        /\ delivered < MaxEvents
        /\ delivered' = delivered + 1
        /\ Ran("process_camera_input", <<h, image>>,
               process_camera_input(Heap, h, image))

GetCollisionHistory ==
    \E h \in Live :
        /\ objs[h].class = "CollisionSensor"
        /\ Ran("get_collision_history", <<h>>, get_collision_history(Heap, h))
        /\ UNCHANGED delivered

-----------------------------------------------------------------------------
\* World.__init__: no actor yet.
World_init ==
    [actor_list |-> << >>, objs |-> << >>, carla |-> << >>, collected |-> {},
     raised |-> "", ret |-> << >>, trace |-> << >>]

NoCall == [op |-> "World", args |-> << >>, raised |-> "", ret |-> << >>,
           trace |-> << >>]

Init ==
    /\ actor_list = World_init.actor_list
    /\ objs = World_init.objs
    /\ carla = World_init.carla
    /\ collected = World_init.collected
    /\ call = NoCall
    /\ delivered = 0
    /\ arrived = << >>

Next ==
    \/ NewVehicle
    \/ NewCollisionSensor
    \/ NewLaneInvasionSensor
    \/ NewCamera
    \/ Destroy
    \/ WorldDestroy
    \/ WorldTick
    \/ SetControl
    \/ Collect
    \/ OnCollision
    \/ OnInvasion
    \/ ProcessCameraInput
    \/ GetCollisionHistory

\* Every handler, from the empty world.
Spec == Init /\ [][Next]_vars

\* The lifecycle of the handles: construction, destruction, ticks and
\* garbage collection, from the empty world.
NextLifecycle ==
    \/ NewVehicle
    \/ NewCollisionSensor
    \/ NewLaneInvasionSensor
    \/ NewCamera
    \/ Destroy
    \/ WorldDestroy
    \/ WorldTick
    \/ SetControl
    \/ Collect

SpecLifecycle == Init /\ [][NextLifecycle]_vars

\* The scenes the sensor callbacks are delivered in: a vehicle that owns
\* its two sensors, or a bare vehicle with two sensors attached to it by
\* the user, and a camera; f tells whether the user functions are callable.
Scenes ==
    {Camera_init(Vehicle_init(World_init, TRUE, TRUE), TRUE)}
    \cup {Camera_init(LaneInvasionSensor_init(CollisionSensor_init(
              Vehicle_init(World_init, FALSE, FALSE), f), f), f) : f \in BOOLEAN}

\* The scene, no callback delivered yet.
InitSensors ==
    \E scene \in Scenes :
        /\ actor_list = scene.actor_list
        /\ objs = scene.objs
        /\ carla = scene.carla
        /\ collected = scene.collected
        /\ call = NoCall
        /\ delivered = 0
        /\ arrived = [h \in 1..Len(scene.objs) |-> << >>]

NextSensors ==
    \/ Destroy
    \/ WorldDestroy
    \/ Collect
    \/ OnCollision
    \/ OnInvasion
    \/ ProcessCameraInput
    \/ GetCollisionHistory

\* The sensor callbacks, in a scene that holds every kind of sensor.
SpecSensors == InitSensors /\ [][NextSensors]_vars

\* Collision event i of a long run of collisions: the frame advances after
\* every half of a full history, and the impulses repeat.
PastEvent(i) ==
    [frame_number |-> i \div ((HISTORY_MAX \div 2) + 1),
     normal_impulse |-> Impulses[(i % Len(Impulses)) + 1]]

\* The history entry of an event: its frame and the norm of its impulse.
Entry(event) ==
    <<event.frame_number,
      sqrt(event.normal_impulse[1] * event.normal_impulse[1]
           + event.normal_impulse[2] * event.normal_impulse[2]
           + event.normal_impulse[3] * event.normal_impulse[3])>>

\* A vehicle and a collision sensor attached to it, with or without a
\* callable on_collision_fn.
HistoryScenes ==
    {CollisionSensor_init(Vehicle_init(World_init, FALSE, FALSE), f) :
        f \in BOOLEAN}

\* The handle of the collision sensor of a scene: the actor spawned after
\* the vehicle.
TheCollisionSensor == NewActor(Vehicle_init(World_init, FALSE, FALSE)) + 1

\* The scene after its collision sensor received n events: none, one short
\* of a full history, or exactly a full history.
InitHistory ==
    \E scene \in HistoryScenes, n \in {0, HISTORY_MAX - 1, HISTORY_MAX} :
        /\ actor_list = scene.actor_list
        /\ objs = [scene.objs EXCEPT ![TheCollisionSensor].history =
                       [i \in 1..n |-> Entry(PastEvent(i))]]
        /\ carla = scene.carla
        /\ collected = scene.collected
        /\ call = NoCall
        /\ delivered = 0
        /\ arrived = [h \in 1..Len(scene.objs) |->
                         IF h = TheCollisionSensor
                         THEN [i \in 1..n |-> PastEvent(i)] ELSE << >>]

NextHistory ==
    \/ OnCollision
    \/ GetCollisionHistory

\* The collision history at its bound.
SpecHistory == InitHistory /\ [][NextHistory]_vars

-----------------------------------------------------------------------------
\* The properties checked.

InList(list, h) == \E i \in 1..Len(list) : list[i] = h

Count(list, x) == Cardinality({i \in 1..Len(list) : list[i] = x})

IsDestroyCall(c) == c[1] = "destroy"
IsTickCall(c) == c[1] = "tick"
IsApplyCall(c) == c[1] = "apply_control"

\* Entry i of the trace is a destroy() call that went through: it is not
\* the call that raised, which is the last destroy() call of the trace.
Succeeded(c, i) ==
    c.raised = "" \/ \E j \in (i + 1)..Len(c.trace) : IsDestroyCall(c.trace[j])

C1_Step ==
    call'.op \in {"destroy", "World.destroy"} =>
        LET t == call'.trace IN
        \A i \in 1..Len(t) :
            IsDestroyCall(t[i]) =>
                LET h == t[i][2]
                    flag == objs[h].destroyed
                            \/ \E j \in 1..(i - 1) : t[j] = <<"destroy", h>>
                IN  /\ flag <=> ~Succeeded(call', i)
                    /\ flag => call'.raised = ALREADY_DESTROYED

C1_Flag ==
    \A h \in 1..Len(objs') :
        IF h > Len(objs) THEN objs'[h].destroyed = FALSE
        ELSE /\ objs[h].destroyed => objs'[h].destroyed
             /\ objs'[h].destroyed /\ ~objs[h].destroyed <=>
                    /\ call'.op \in {"destroy", "World.destroy"}
                    /\ ~objs[h].destroyed
                    /\ \E i \in 1..Len(call'.trace) :
                           call'.trace[i] = <<"destroy", h>> /\ Succeeded(call', i)

\* C1: the destroyed flag of a handle is false when the handle is
\* constructed, becomes true exactly when a destroy() call on it goes
\* through, and is true ever after; a destroy() call on a handle whose flag
\* is true raises "Actor already destroyed.", a call on a handle whose flag
\* is false does not, whether the call is made directly or by
\* World.destroy().
C1_DestroyedFlag == [][C1_Step /\ C1_Flag]_vars

\* A second destroy() on a handle has raised, while another handle is still
\* in the list.
C1_Witness ==
    /\ call.op = "destroy"
    /\ call.raised = ALREADY_DESTROYED
    /\ objs[call.args[1]].destroyed
    /\ actor_list # << >>

C2_Step ==
    call'.op = "World.destroy" =>
        /\ call'.raised = ""
        /\ actor_list' = << >>
        /\ \A h \in 1..Len(objs) :
               Count(call'.trace, <<"destroy", h>>)
                   = (IF InList(actor_list, h) THEN 1 ELSE 0)

\* C2: World.destroy(), from any reachable state, raises nothing, leaves
\* World.actor_list empty, and calls destroy() exactly once on each handle
\* that was in the list and on no other handle.
C2_WorldDestroy == [][C2_Step]_vars

\* World.destroy() has run on a list that held a vehicle and a sensor it
\* owns, after another handle had been destroyed on its own.
C2_Witness ==
    /\ call.op = "World.destroy"
    /\ \E v \in Handles :
           /\ objs[v].class = "Vehicle"
           /\ InList(call.trace, <<"destroy", v>>)
           /\ \E s \in {objs[v].collision_sensor, objs[v].lane_sensor} :
                  s # 0 /\ InList(call.trace, <<"destroy", s>>)
    /\ \E h \in Handles :
           objs[h].destroyed /\ ~InList(call.trace, <<"destroy", h>>)

\* C3: the history of every collision sensor holds at most HISTORY_MAX
\* entries, and it is the entries of the most recent min(N, HISTORY_MAX) of
\* the N events that reached the sensor, in arrival order: the oldest is
\* the one evicted.
C3_HistoryBound ==
    \A h \in Handles :
        objs[h].class = "CollisionSensor" =>
            LET history == objs[h].history
                N == Len(arrived[h])
                kept == IF N < HISTORY_MAX THEN N ELSE HISTORY_MAX
            IN  /\ Len(history) <= HISTORY_MAX
                /\ Len(history) = kept
                /\ \A i \in 1..kept : history[i] = Entry(arrived[h][N - kept + i])

\* An event has arrived at a full history.
C3_Witness ==
    /\ call.op = "on_collision"
    /\ Len(arrived[call.args[1]]) > HISTORY_MAX
    /\ Len(objs[call.args[1]].history) = HISTORY_MAX

\* The sum of the intensities of the entries lo..hi of the history that
\* are of the frame.
RECURSIVE FrameSum(_, _, _, _)
FrameSum(history, frame, lo, hi) ==
    IF lo > hi THEN 0
    ELSE IF lo = hi
    THEN (IF history[lo][1] = frame THEN history[lo][2] ELSE 0)
    ELSE FrameSum(history, frame, lo, (lo + hi) \div 2)
         + FrameSum(history, frame, ((lo + hi) \div 2) + 1, hi)

C4_Step ==
    call'.op = "get_collision_history" =>
        LET history == objs[call'.args[1]].history IN
        /\ call'.raised = ""
        /\ DOMAIN call'.ret = {history[i][1] : i \in 1..Len(history)}
        /\ \A frame \in DOMAIN call'.ret :
               call'.ret[frame] = FrameSum(history, frame, 1, Len(history))
        /\ objs' = objs

\* C4: get_collision_history() returns a mapping whose keys are the frames
\* of the entries of the history, whose value for a frame is the sum of the
\* intensities of the entries of that frame, and it leaves the history as
\* it was.
C4_SumPerFrame == [][C4_Step]_vars

\* get_collision_history() has returned a mapping of several frames, one of
\* them the frame of several entries of a full history.
C4_Witness ==
    /\ call.op = "get_collision_history"
    /\ Cardinality(DOMAIN call.ret) >= 2
    /\ Len(objs[call.args[1]].history) = HISTORY_MAX
    /\ Len(arrived[call.args[1]]) > HISTORY_MAX

UserFn(op) ==
    CASE op = "on_collision" -> "on_collision_fn"
      [] op = "on_invasion" -> "on_invasion_fn"
      [] op = "process_camera_input" -> "on_recv_image"

C5_Step ==
    call'.op \in {"on_collision", "on_invasion", "process_camera_input"} =>
        LET h == call'.args[1] IN
        /\ call'.raised = ""
        /\ h \in collected =>
               /\ call'.trace = << >>
               /\ <<actor_list, objs, carla, collected>>'
                      = <<actor_list, objs, carla, collected>>
        /\ h \notin collected /\ objs[h].fn =>
               /\ Len(call'.trace) = 1
               /\ call'.trace[1][1] = UserFn(call'.op)
               /\ call'.op # "process_camera_input" =>
                      call'.trace[1][2] = call'.args[2]

C6_CameraBuffer ==
    call.op = "process_camera_input" =>
        LET h == call.args[1]
            image == call.args[2]
        IN  /\ (h \notin collected /\ objs[h].fn) <=> call.trace # << >>
            /\ call.trace # << >> =>
                   LET output == call.trace[1][2] IN
                   /\ call.trace[1][1] = "on_recv_image"
                   /\ DOMAIN output = 1..image.height
                   /\ \A r \in 1..image.height :
                          /\ DOMAIN output[r] = 1..image.width
                          /\ \A c \in 1..image.width :
                                 /\ DOMAIN output[r][c] = 1..3
                                 /\ \A k \in 1..3 :
                                        output[r][c][k] = image.raw_data[
                                            ((r - 1) * image.width + (c - 1)) * 4
                                            + (4 - k)]

\* on_recv_image has been called for an image of several rows and columns.
C6_Witness ==
    /\ call.op = "process_camera_input"
    /\ call.trace # << >>
    /\ call.args[2].height > 1
    /\ call.args[2].width > 1

C7_Step ==
    call'.op = "World.tick" =>
        /\ call'.raised = ""
        /\ <<actor_list, objs, carla, collected>>'
               = <<actor_list, objs, carla, collected>>
        /\ SelectSeq(call'.trace, IsTickCall)
               = [i \in 1..Len(actor_list) |-> <<"tick", actor_list[i]>>]
        /\ \A h \in 1..Len(objs) :
               InList(actor_list, h) /\ objs[h].class = "Vehicle" =>
                   Count(call'.trace, <<"apply_control", h, objs[h].control>>) = 1
        /\ Len(SelectSeq(call'.trace, IsApplyCall))
               = Cardinality({h \in 1..Len(objs) :
                     InList(actor_list, h) /\ objs[h].class = "Vehicle"})

\* C7: World.tick() calls tick() once on each handle of the actor list, in
\* list order, and changes neither the list nor any wrapper; the only calls
\* it makes to the simulator are one apply_control per vehicle of the list,
\* with that vehicle's current control.
C7_WorldTick == [][C7_Step]_vars

\* World.tick() has applied a control the user had set and has ticked a
\* handle that is not a vehicle.
C7_Witness ==
    /\ call.op = "World.tick"
    /\ \E h \in Handles : InList(call.trace, <<"apply_control", h, 1>>)
    /\ \E h \in Handles :
           objs[h].class # "Vehicle" /\ InList(call.trace, <<"tick", h>>)

C8_Ordering ==
    call.op = "on_collision" /\ call.trace # << >> =>
        LET h == call.args[1]
            event == call.args[2]
        IN  /\ call.trace = << <<"on_collision_fn", event,
                                 <<Len(objs[h].history), Entry(event)>> >> >>
            /\ Len(objs[h].history) <= HISTORY_MAX

\* C8 as stated: on_collision_fn runs exactly once for every delivered
\* event, after the entry of the event was appended and the history
\* truncated.
C8_Original ==
    /\ C8_Ordering
    /\ call.op = "on_collision" => Len(call.trace) = 1

\* C8 as amended: on_collision_fn runs exactly once, with the raw event, for
\* every event delivered while the wrapper is alive and on_collision_fn is
\* callable, and not at all otherwise; when it runs, the entry of the event
\* is already the last of the history and the history holds at most
\* HISTORY_MAX entries.
C8_CallbackLast ==
    /\ C8_Ordering
    /\ call.op = "on_collision" =>
           Len(call.trace) = (IF call.args[1] \notin collected
                                 /\ objs[call.args[1]].fn THEN 1 ELSE 0)

\* on_collision_fn has run for an event that arrived at a full history.
C8_Witness ==
    /\ call.op = "on_collision"
    /\ call.trace # << >>
    /\ call.trace[1][3][1] = HISTORY_MAX
    /\ Len(arrived[call.args[1]]) > HISTORY_MAX

\* C9: World.actor_list holds exactly the handles whose destroyed flag is
\* false, each once, in the order their simulator actors were spawned (the
\* order of the actor ids); a vehicle precedes the sensors it owns.
C9_ActorList ==
    /\ \A i \in 1..Len(actor_list) : actor_list[i] \in Handles
    /\ \A h \in Handles : Count(actor_list, h) = (IF objs[h].destroyed THEN 0 ELSE 1)
    /\ \A i \in 1..Len(actor_list), j \in 1..Len(actor_list) :
           i < j => actor_list[i] < actor_list[j]
    /\ \A v \in Handles :
           objs[v].class = "Vehicle" =>
               \A s \in {objs[v].collision_sensor, objs[v].lane_sensor} :
                   \A i \in 1..Len(actor_list), j \in 1..Len(actor_list) :
                       actor_list[i] = v /\ actor_list[j] = s => i < j

\* The list holds a vehicle and its lane sensor, its collision sensor
\* having been destroyed.
C9_Witness ==
    \E v \in Handles :
        /\ objs[v].class = "Vehicle"
        /\ objs[v].collision_sensor # 0
        /\ objs[v].lane_sensor # 0
        /\ objs[objs[v].collision_sensor].destroyed
        /\ actor_list = <<v, objs[v].lane_sensor>>

C10_Step ==
    call'.op = "destroy" /\ call'.raised # "" =>
        /\ call'.trace = << <<"destroy", call'.args[1]>> >>
        /\ <<actor_list, objs, carla, collected>>'
               = <<actor_list, objs, carla, collected>>
        /\ objs'[call'.args[1]].destroyed

C10_Once == \A h \in 1..Len(carla) : carla[h].destroy_calls <= 1

\* C10: a destroy() call that raises makes no call to the simulator and
\* changes neither the actor list nor any flag; no simulator actor has its
\* destroy invoked more than once.
C10_FailedDestroy == []C10_Once /\ [][C10_Step]_vars

\* destroy() has raised on a handle whose simulator actor was destroyed by
\* World.destroy().
C10_Witness ==
    /\ call.op = "destroy"
    /\ call.raised = ALREADY_DESTROYED
    /\ carla[call.args[1]].destroy_calls = 1
    /\ actor_list = << >>
    /\ Len(objs) > 1

=============================================================================
